---- MODULE Spec2Model ----
(***************************************************************************)
(* Model of the detection / alarm application (src/app).                   *)
(*                                                                         *)
(*   - CameraController  (services/camera.py): the in-memory camera state  *)
(*     and its four operations, specification CameraSpec.                  *)
(*   - VehicleDetector.detect (services/detector.py): the detection step,  *)
(*     with a loaded model and in degraded mode, specification DetectSpec. *)
(*   - VehicleDetector.find_matches (services/detector.py) with the        *)
(*     feature comparison of services/features.py, specification          *)
(*     MatchSpec.                                                          *)
(*   - AlarmManager (services/alarm.py) driven by detection_loop           *)
(*     (detector_runner.py): alarm threads, the alarm lock and the runner  *)
(*     process, specifications AlarmSpec and AlarmFairSpec.                *)
(*   - detection_loop (detector_runner.py) by itself, with the snapshots   *)
(*     and events it leaves, specification PipelineSpec.                   *)
(*   - CameraController statement by statement, with get_state read by     *)
(*     another thread, specification CameraReadSpec.                       *)
(*   - AppState.get_singleton (models.py) run by its concurrent callers,   *)
(*     specification StoreSpec.                                            *)
(*                                                                         *)
(* Conventions.  Optional[T] is None or Some(v).  Python strings that the  *)
(* code inspects character by character (the camera source) are sequences  *)
(* of one-character strings.  Floats in [0,1] (confidences) are integers   *)
(* in hundredths: 0.45 is 45, 0.3 is 30, 1.0 is 100.  datetime.utcnow()    *)
(* reads the clock variable now.                                           *)
(***************************************************************************)
EXTENDS Integers, Sequences, FiniteSets, TLC

VARIABLES
    now,            \* the wall clock read by datetime.utcnow()
    camState,       \* CameraController._state
    camLastOp,      \* history: the name of the last CameraController call
    camRaised,      \* history: whether that call raised ValueError
    camPrev,        \* history: connected and last_error as that call found them
    camHolder,      \* the call holding CameraController._lock, or "none"
    camWrites,      \* the assignments that call has still to make
    camCommitted,   \* history: _state when the last call completed
    readPc,         \* get_state: "idle", "reading", "returned"
    readCopy,       \* the fields snapshot() has copied so far
    readSeen,       \* history: the states _state had between completed calls
                    \* while get_state ran
    detModel,       \* VehicleDetector.model is not None
    detMinConf,     \* VehicleDetector.min_confidence
    detCtorConf,    \* history: the min_confidence the constructor was given
    detFrame,       \* the frame handed to detect: its width and height
    detBoxes,       \* what the model returns for that frame: a list of boxes
    detOut,         \* the list detect returned
    detPc,          \* "idle", "frame" (a frame is at hand), "done" (detect
                    \* returned), "matched" (find_matches returned)
    watchlist,      \* the watchlist handed to find_matches
    roiPixels,      \* what the feature extraction sees in a region of the frame
    matches,        \* the list find_matches returned
    alarmCfg,       \* the settings the alarm and the runner read
    lock,           \* AlarmManager._lock: 0 when free, else the thread holding it
    alarmPc,        \* where each alarm thread is in _handle_alarm
    audioErr,       \* history: the threads whose audio playback raised
    phaseLog,       \* history: the phase steps performed, <<thread, step>>, in order
    relayOn,        \* the relay output is asserted
    appState,       \* the AppState row: visual_alarm_active, last_alarm_at
    store,          \* the rows of the app_state table, in rowid order
    getPc,          \* each caller of get_singleton: "start", "missing",
                    \* "found", "done"
    getRow,         \* the id of the row get_singleton returned to it, or 0
    loopPc,         \* detection_loop: "loop", "matches", "returned", "raised"
                    \* (an exception has left it), then "exited", "crashed"
    frameIndex,     \* detection_loop's frame_index
    pendingMatches, \* results of the current frame the loop has yet to handle
    ranWhileHeld,   \* history: runner steps taken while the alarm lock was held
    scenes,         \* what the frame source and the watchlist table may deliver
    released,       \* cap.release() has been called
    events,         \* the detection events recorded, in order
    files,          \* the snapshot files written
    processed,      \* history: the frame indexes find_matches was run on
    matchedSeen     \* history: the results with an entry find_matches returned

readVars == <<camHolder, camWrites, camCommitted, readPc, readCopy, readSeen>>
camVars == <<camState, camLastOp, camRaised, camPrev, readVars>>
detVars ==
    <<detModel, detMinConf, detCtorConf, detFrame, detBoxes, detOut, detPc>>
matchVars == <<watchlist, roiPixels, matches>>
storeVars == <<store, getPc, getRow>>
alarmVars ==
    <<alarmCfg, lock, alarmPc, audioErr, phaseLog, relayOn, appState, storeVars>>
runnerVars ==
    <<loopPc, frameIndex, pendingMatches, ranWhileHeld,
      scenes, released, events, files, processed, matchedSeen>>
vars == <<now, camVars, detVars, matchVars, alarmVars, runnerVars>>

(***************************************************************************)
(* Bounds of the model.                                                    *)
(***************************************************************************)
MaxTime == 1
MaxDim == 2
MaxTriggers == 2
MaxFrames == 2

(***************************************************************************)
(* Optional values.                                                        *)
(***************************************************************************)
None == [some |-> FALSE]
Some(v) == [some |-> TRUE, val |-> v]

(***************************************************************************)
(* The clock.                                                              *)
(***************************************************************************)
Tick ==
    /\ now < MaxTime
    /\ now' = now + 1

(***************************************************************************)
(* services/camera.py                                                      *)
(***************************************************************************)
DefaultFrameSkip == 2
DefaultMinConfidence == 45
DefaultSource == <<"0">>

RECURSIVE LStrip(_)
LStrip(s) ==
    IF s = <<>> THEN <<>>
    ELSE IF Head(s) = " " THEN LStrip(Tail(s))
    ELSE s

RECURSIVE RStrip(_)
RStrip(s) ==
    IF s = <<>> THEN <<>>
    ELSE IF s[Len(s)] = " " THEN RStrip(SubSeq(s, 1, Len(s) - 1))
    ELSE s

\* str.strip(): leading and trailing whitespace removed
Strip(s) == RStrip(LStrip(s))

\* bool(message) of "if message:": None and "" are falsy
Truthy(message) == message.some /\ message.val # ""

CameraSnapshotInit ==
    [source |-> DefaultSource,
     frame_skip |-> DefaultFrameSkip,
     min_confidence |-> DefaultMinConfidence,
     connected |-> FALSE,
     last_connected_at |-> None,
     last_error |-> None]

\* _apply_updates: the three overrides are validated and assigned one after
\* the other; a ValueError leaves the assignments already made in place.
ApplySource(st, source) ==
    IF ~source.some THEN [st |-> st, raised |-> FALSE]
    ELSE IF Strip(source.val) = <<>> THEN [st |-> st, raised |-> TRUE]
    ELSE [st |-> [st EXCEPT !.source = Strip(source.val)], raised |-> FALSE]

\* _apply_updates that rejects only a negative frame_skip
ApplyFrameSkipNonNegative(r, frame_skip) ==
    IF r.raised \/ ~frame_skip.some THEN r
    ELSE IF frame_skip.val < 0 THEN [st |-> r.st, raised |-> TRUE]
    ELSE [st |-> [r.st EXCEPT !.frame_skip = frame_skip.val], raised |-> FALSE]

ApplyFrameSkip(r, frame_skip) ==
    IF r.raised \/ ~frame_skip.some THEN r
    ELSE IF frame_skip.val < 1 THEN [st |-> r.st, raised |-> TRUE]
    ELSE [st |-> [r.st EXCEPT !.frame_skip = frame_skip.val], raised |-> FALSE]

ApplyMinConfidence(r, min_confidence) ==
    IF r.raised \/ ~min_confidence.some THEN r
    ELSE IF ~(0 <= min_confidence.val /\ min_confidence.val <= 100)
         THEN [st |-> r.st, raised |-> TRUE]
    ELSE [st |-> [r.st EXCEPT !.min_confidence = min_confidence.val],
          raised |-> FALSE]

ApplyUpdates(st, source, frame_skip, min_confidence) ==
    ApplyMinConfidence(ApplyFrameSkip(ApplySource(st, source), frame_skip),
                       min_confidence)

\* connect that forgets to clear last_error
ConnectOpKeepsError(st, source, frame_skip, min_confidence, t) ==
    LET r == ApplyUpdates(st, source, frame_skip, min_confidence)
    IN  IF r.raised THEN r
        ELSE [st |-> [r.st EXCEPT !.connected = TRUE,
                                  !.last_connected_at = Some(t)],
              raised |-> FALSE]

ConnectOp(st, source, frame_skip, min_confidence, t) ==
    LET r == ApplyUpdates(st, source, frame_skip, min_confidence)
    IN  IF r.raised THEN r
        ELSE [st |-> [r.st EXCEPT !.connected = TRUE,
                                  !.last_error = None,
                                  !.last_connected_at = Some(t)],
              raised |-> FALSE]

\* disconnect that flips connected instead of clearing it
DisconnectOpToggles(st) ==
    [st |-> [st EXCEPT !.connected = ~@], raised |-> FALSE]

DisconnectOp(st) ==
    [st |-> [st EXCEPT !.connected = FALSE], raised |-> FALSE]

\* update that marks the camera disconnected when it changes the settings
UpdateOpDisconnects(st, source, frame_skip, min_confidence) ==
    IF ~(source.some \/ frame_skip.some \/ min_confidence.some)
    THEN [st |-> st, raised |-> FALSE]
    ELSE LET r == ApplyUpdates(st, source, frame_skip, min_confidence)
         IN  [st |-> [r.st EXCEPT !.connected = FALSE], raised |-> r.raised]

UpdateOp(st, source, frame_skip, min_confidence) ==
    IF ~(source.some \/ frame_skip.some \/ min_confidence.some)
    THEN [st |-> st, raised |-> FALSE]
    ELSE ApplyUpdates(st, source, frame_skip, min_confidence)

\* set_error that tests "message is not None" instead of "message"
SetErrorOpNotNone(st, message) ==
    [st |-> [st EXCEPT !.last_error = message,
                       !.connected = IF message.some THEN FALSE ELSE @],
     raised |-> FALSE]

SetErrorOp(st, message) ==
    [st |-> [st EXCEPT !.last_error = message,
                       !.connected = IF Truthy(message) THEN FALSE ELSE @],
     raised |-> FALSE]

\* The arguments the callers may pass.
SourceArgs ==
    {None, Some(<<>>), Some(<<" ">>), Some(<<"a">>), Some(<<" ", "b", " ">>)}
FrameSkipArgs == {None, Some(0), Some(1), Some(3)}
MinConfidenceArgs == {None, Some(-1), Some(0), Some(100), Some(101)}
MessageArgs == {None, Some(""), Some(" "), Some("boom")}

\* One completed call of the controller: the new state and the history.
Performed(op, r) ==
    /\ camLastOp' = op
    /\ camState' = r.st
    /\ camRaised' = r.raised
    /\ camPrev' = [connected |-> camState.connected,
                   last_error |-> camState.last_error]
    /\ camCommitted' = r.st
    /\ UNCHANGED <<camHolder, camWrites, readPc, readCopy, readSeen>>
    /\ UNCHANGED <<now, detVars, matchVars, alarmVars, runnerVars>>

Connect(source, frame_skip, min_confidence) ==
    Performed("connect",
              ConnectOp(camState, source, frame_skip, min_confidence, now))

Disconnect ==
    Performed("disconnect", DisconnectOp(camState))

Update(source, frame_skip, min_confidence) ==
    Performed("update", UpdateOp(camState, source, frame_skip, min_confidence))

SetError(message) ==
    Performed("set_error", SetErrorOp(camState, message))

CameraIdle ==
    /\ camState = CameraSnapshotInit
    /\ camLastOp = "none"
    /\ camRaised = FALSE
    /\ camPrev = [connected |-> FALSE, last_error |-> None]
    /\ camHolder = "none"
    /\ camWrites = <<>>
    /\ camCommitted = CameraSnapshotInit
    /\ readPc = "idle"
    /\ readCopy = <<>>
    /\ readSeen = {}

\* No detector at work: the state of the detector in the other specifications.
DetectorIdle ==
    /\ detModel = FALSE
    /\ detCtorConf = None
    /\ detMinConf = DefaultMinConfidence
    /\ detFrame = [width |-> 1, height |-> 1]
    /\ detBoxes = <<>>
    /\ detOut = <<>>
    /\ detPc = "idle"

\* No matching at work.
MatchIdle ==
    /\ watchlist = <<>>
    /\ roiPixels = [color_hist |-> 1, average_color |-> 0, edge_density |-> 0,
                    color_name |-> "negro"]
    /\ matches = <<>>

\* No runner and no alarm at work.
AlarmIdle ==
    /\ alarmCfg = [enable_audio |-> TRUE, sound_file |-> FALSE,
                   relay_active_seconds |-> 5, device |-> FALSE, frame_skip |-> 2]
    /\ lock = 0
    /\ alarmPc = <<>>
    /\ audioErr = {}
    /\ phaseLog = <<>>
    /\ relayOn = FALSE
    /\ appState = [visual_alarm_active |-> FALSE, last_alarm_at |-> None]
    /\ loopPc = "exited"
    /\ frameIndex = 0
    /\ pendingMatches = <<>>
    /\ ranWhileHeld = {}
    /\ scenes = {}
    /\ released = TRUE
    /\ events = <<>>
    /\ files = {}
    /\ processed = {}
    /\ matchedSeen = 0

\* The callers of AppState.get_singleton: the runner before its loop, a
\* phase of the alarm (_set_visual_alarm) and two requests for the alarm
\* state.
StoreCallers == {"runner", "alarm", "api1", "api2"}

\* AppState(): a new row with the defaults of its columns
AppStateRow(id) ==
    [id |-> id, visual_alarm_active |-> FALSE, last_alarm_at |-> None]

\* The table with the row the runner created and no call under way: the
\* store in the specifications that follow the one row (appState).
StoreIdle ==
    /\ store = <<AppStateRow(1)>>
    /\ getPc = [c \in StoreCallers |-> "done"]
    /\ getRow = [c \in StoreCallers |-> 1]

CameraInit ==
    /\ now = 0
    /\ CameraIdle
    /\ DetectorIdle
    /\ MatchIdle
    /\ AlarmIdle
    /\ StoreIdle

CameraTick ==
    Tick /\ UNCHANGED <<camVars, detVars, matchVars, alarmVars, runnerVars>>

CameraNext ==
    \/ \E s \in SourceArgs, f \in FrameSkipArgs, c \in MinConfidenceArgs :
           Connect(s, f, c)
    \/ Disconnect
    \/ \E s \in SourceArgs, f \in FrameSkipArgs, c \in MinConfidenceArgs :
           Update(s, f, c)
    \/ \E m \in MessageArgs : SetError(m)
    \/ CameraTick

CameraSpec == CameraInit /\ [][CameraNext]_vars

(***************************************************************************)
(* services/camera.py, statement by statement: the calls of the controller *)
(* made from several threads, and get_state made from another.  connect,   *)
(* disconnect, update and set_error run "with self._lock", one assignment  *)
(* to a field of _state after the other; snapshot() takes no lock and      *)
(* copies the six fields of _state one after the other.                    *)
(***************************************************************************)
\* The order in which a call assigns the fields of _state.
AssignOrder(op) ==
    CASE op = "connect" ->
             <<"source", "frame_skip", "min_confidence",
               "connected", "last_error", "last_connected_at">>
      [] op = "disconnect" -> <<"connected">>
      [] op = "update" -> <<"source", "frame_skip", "min_confidence">>
      [] op = "set_error" -> <<"last_error", "connected">>

\* The assignments of a call that takes _state from before to after, in
\* that order (an assignment of the value a field has already is left out).
RECURSIVE Assignments(_, _, _)
Assignments(order, before, after) ==
    IF order = <<>> THEN <<>>
    ELSE LET f == Head(order)
             rest == Assignments(Tail(order), before, after)
         IN  IF before[f] = after[f] THEN rest
             ELSE <<[field |-> f, val |-> after[f]]>> \o rest

\* "with self._lock:" entered, the assignments of the call still to make
Locked(op, r) ==
    /\ camHolder = "none"
    /\ camHolder' = op
    /\ camWrites' = Assignments(AssignOrder(op), camState, r.st)
    /\ UNCHANGED <<now, camState, camLastOp, camRaised, camPrev, camCommitted>>
    /\ UNCHANGED <<readPc, readCopy, readSeen>>
    /\ UNCHANGED <<detVars, matchVars, alarmVars, runnerVars>>

ConnectBegin(source, frame_skip, min_confidence) ==
    Locked("connect",
           ConnectOp(camState, source, frame_skip, min_confidence, now))

DisconnectBegin ==
    Locked("disconnect", DisconnectOp(camState))

UpdateBegin(source, frame_skip, min_confidence) ==
    Locked("update", UpdateOp(camState, source, frame_skip, min_confidence))

SetErrorBegin(message) ==
    Locked("set_error", SetErrorOp(camState, message))

\* one assignment to a field of _state, the lock held
Assign ==
    /\ camHolder # "none"
    /\ camWrites # <<>>
    /\ camState' = [camState EXCEPT ![Head(camWrites).field] = Head(camWrites).val]
    /\ camWrites' = Tail(camWrites)
    /\ UNCHANGED <<now, camLastOp, camRaised, camPrev, camHolder, camCommitted>>
    /\ UNCHANGED <<readPc, readCopy, readSeen>>
    /\ UNCHANGED <<detVars, matchVars, alarmVars, runnerVars>>

\* the with block left, by return or by ValueError: the call is complete
Unlock ==
    /\ camHolder # "none"
    /\ camWrites = <<>>
    /\ camHolder' = "none"
    /\ camCommitted' = camState
    /\ readSeen' = IF readPc = "reading" THEN readSeen \cup {camState}
                   ELSE readSeen
    /\ UNCHANGED <<now, camState, camLastOp, camRaised, camPrev, camWrites>>
    /\ UNCHANGED <<readPc, readCopy>>
    /\ UNCHANGED <<detVars, matchVars, alarmVars, runnerVars>>

\* The order in which snapshot() copies the fields.
ReadOrder ==
    <<"source", "frame_skip", "min_confidence",
      "connected", "last_connected_at", "last_error">>

\* The CameraSnapshot built from the six copies.
SnapshotOf(copy) ==
    [source |-> copy[1],
     frame_skip |-> copy[2],
     min_confidence |-> copy[3],
     connected |-> copy[4],
     last_connected_at |-> copy[5],
     last_error |-> copy[6]]

\* get_state called: snapshot() starts, without the lock
GetStateBegin ==
    /\ readPc \in {"idle", "returned"}
    /\ readPc' = "reading"
    /\ readCopy' = <<>>
    /\ readSeen' = {camCommitted}
    /\ UNCHANGED <<now, camState, camLastOp, camRaised, camPrev>>
    /\ UNCHANGED <<camHolder, camWrites, camCommitted>>
    /\ UNCHANGED <<detVars, matchVars, alarmVars, runnerVars>>

\* snapshot() copies the next field of _state
SnapshotRead ==
    /\ readPc = "reading"
    /\ Len(readCopy) < Len(ReadOrder)
    /\ readCopy' = Append(readCopy, camState[ReadOrder[Len(readCopy) + 1]])
    /\ UNCHANGED <<now, camState, camLastOp, camRaised, camPrev>>
    /\ UNCHANGED <<camHolder, camWrites, camCommitted, readPc, readSeen>>
    /\ UNCHANGED <<detVars, matchVars, alarmVars, runnerVars>>

\* get_state returns to_dict of the snapshot
GetStateReturn ==
    /\ readPc = "reading"
    /\ Len(readCopy) = Len(ReadOrder)
    /\ readPc' = "returned"
    /\ UNCHANGED <<now, camState, camLastOp, camRaised, camPrev>>
    /\ UNCHANGED <<camHolder, camWrites, camCommitted, readCopy, readSeen>>
    /\ UNCHANGED <<detVars, matchVars, alarmVars, runnerVars>>

\* The arguments of the calls made while get_state runs.
ReadSourceArgs == {None, Some(<<"a">>)}
ReadFrameSkipArgs == {None, Some(0)}
ReadMessageArgs == {None, Some("boom")}

CameraReadNext ==
    \/ \E s \in ReadSourceArgs, f \in ReadFrameSkipArgs : ConnectBegin(s, f, None)
    \/ DisconnectBegin
    \/ \E s \in ReadSourceArgs, f \in ReadFrameSkipArgs : UpdateBegin(s, f, None)
    \/ \E m \in ReadMessageArgs : SetErrorBegin(m)
    \/ Assign
    \/ Unlock
    \/ GetStateBegin
    \/ SnapshotRead
    \/ GetStateReturn

CameraReadSpec == CameraInit /\ [][CameraReadNext]_vars

(***************************************************************************)
(* services/detector.py: VehicleDetector.__init__, detect,                 *)
(* _degraded_detection.  A frame is its width and height (frame.shape is   *)
(* (height, width, 3)); a region of interest is the number of rows and     *)
(* columns of the slice taken.                                             *)
(***************************************************************************)
Max(a, b) == IF a >= b THEN a ELSE b
Min(a, b) == IF a <= b THEN a ELSE b

\* Python's slice a:b of an axis of length n: the number of elements taken.
\* A negative index counts from the end.
SliceIndex(i, n) == IF i < 0 THEN Max(i + n, 0) ELSE Min(i, n)
SliceLen(a, b, n) == Max(SliceIndex(b, n) - SliceIndex(a, n), 0)

\* frame[y1:y2, x1:x2]
Roi(frame, x1, y1, x2, y2) ==
    [rows |-> SliceLen(y1, y2, frame.height),
     cols |-> SliceLen(x1, x2, frame.width)]

\* roi.size: rows * cols * 3 channels
RoiSize(roi) == roi.rows * roi.cols * 3

\* __init__: "min_confidence or settings.camera.min_confidence"; None and 0.0
\* are falsy.
CtorMinConfidence(min_confidence) ==
    IF min_confidence.some /\ min_confidence.val # 0
    THEN min_confidence.val
    ELSE DefaultMinConfidence

DetectionResult(label, confidence, bbox, class_name, roi) ==
    [label |-> label, confidence |-> confidence, bbox |-> bbox,
     class_name |-> class_name, roi |-> roi]

\* _degraded_detection with the last quarter taken as 3 * (height // 4)
DegradedDetectionQuarterFirst(frame) ==
    LET height == frame.height
        width == frame.width
    IN  << DetectionResult(
               "desconocido", 30,
               <<width \div 4, height \div 4, (width \div 4) * 3, (height \div 4) * 3>>,
               "desconocido",
               Roi(frame, width \div 4, height \div 4,
                   (width \div 4) * 3, (height \div 4) * 3)) >>

DegradedDetection(frame) ==
    LET height == frame.height
        width == frame.width
    IN  << DetectionResult(
               "desconocido", 30,
               <<width \div 4, height \div 4, (width * 3) \div 4, (height * 3) \div 4>>,
               "desconocido",
               Roi(frame, width \div 4, height \div 4,
                   (width * 3) \div 4, (height * 3) \div 4)) >>

\* The body of "for box in boxes": the detections with this box handled.
DetectBox(frame, min_conf, box, detections) ==
    IF box.conf < min_conf THEN detections
    ELSE LET x1 == Max(0, box.xyxy[1])
             y1 == Max(0, box.xyxy[2])
             x2 == Min(frame.width, box.xyxy[3])
             y2 == Min(frame.height, box.xyxy[4])
             roi == Roi(frame, x1, y1, x2, y2)
         IN  IF RoiSize(roi) = 0 THEN detections
             ELSE Append(detections,
                         DetectionResult(box.cls, box.conf, box.xyxy, box.cls, roi))

RECURSIVE DetectBoxes(_, _, _, _)
DetectBoxes(frame, min_conf, boxes, detections) ==
    IF boxes = <<>> THEN detections
    ELSE DetectBoxes(frame, min_conf, Tail(boxes),
                     DetectBox(frame, min_conf, Head(boxes), detections))

DetectOp(model, min_conf, frame, boxes) ==
    IF ~model THEN DegradedDetection(frame)
    ELSE DetectBoxes(frame, min_conf, boxes, <<>>)

\* Inputs.  Frames are at least one pixel wide and high; 640x480 is the frame
\* of the end-to-end scenario.
FrameSizes ==
    {[width |-> w, height |-> h] : w \in 1..MaxDim, h \in 1..MaxDim}
        \cup {[width |-> 640, height |-> 480]}

\* The model's boxes: corners (x1, y1, x2, y2) with x1 <= x2 and y1 <= y2,
\* which may lie outside the frame; box.conf; the class name of box.cls.
Coords == -1..(MaxDim + 1)
Corners ==
    {<<x1, y1, x2, y2>> : x1 \in Coords, y1 \in Coords, x2 \in Coords, y2 \in Coords}
BoxCorners == {c \in Corners : c[1] <= c[3] /\ c[2] <= c[4]}
ConfValues == {44, 45, 50}
ClassNames == {"car", "person"}
Boxes ==
    {[conf |-> p, cls |-> n, xyxy |-> c] :
        p \in ConfValues, n \in ClassNames, c \in BoxCorners}
PairBoxes ==
    {[conf |-> p, cls |-> n, xyxy |-> c] :
        p \in {44, 50}, n \in ClassNames, c \in {<<0, 0, 1, 1>>, <<-1, 0, 1, 0>>}}
BoxLists ==
    {<<>>} \cup {<<b>> : b \in Boxes} \cup {<<a, b>> : a \in PairBoxes, b \in PairBoxes}
CtorMinConfidenceArgs == {None, Some(0), Some(50)}

\* detector.detect(frame), also called again on the same frame
Detect ==
    /\ detPc \in {"frame", "done"}
    /\ detOut' = DetectOp(detModel, detMinConf, detFrame, detBoxes)
    /\ detPc' = "done"
    /\ UNCHANGED <<now, camVars, detModel, detMinConf, detCtorConf, detFrame, detBoxes>>
    /\ UNCHANGED <<matchVars, alarmVars, runnerVars>>

\* A detector as constructed, and a frame read from the source together with
\* what the model (if one is loaded) returns for it.
DetectInit ==
    /\ now = 0
    /\ CameraIdle
    /\ detModel \in BOOLEAN
    /\ detCtorConf \in CtorMinConfidenceArgs
    /\ detMinConf = CtorMinConfidence(detCtorConf)
    /\ detFrame \in FrameSizes
    /\ detBoxes \in (IF detModel THEN BoxLists ELSE {<<>>})
    /\ detOut = <<>>
    /\ detPc = "frame"
    /\ MatchIdle
    /\ AlarmIdle
    /\ StoreIdle

DetectNext == Detect

DetectSpec == DetectInit /\ [][DetectNext]_vars

(***************************************************************************)
(* services/detector.py: _match_vehicle_type, find_matches, and the        *)
(* feature comparison of services/features.py.  Strings the code lowers or *)
(* searches are sequences of one-character strings (Chars).  Scores are    *)
(* integers in ten-thousandths: 0.1 is 1000, 0.05 is 500; the histogram,   *)
(* color and edge scores and the edge density are in hundredths.  What the *)
(* image library computes from the pixels of a region (histogram, average  *)
(* color, edge density, dominant color name) is an input, roiPixels; a     *)
(* histogram is a number that names it, an average color a gray level.  A  *)
(* watchlist entry is known by its place in the watchlist.                 *)
(***************************************************************************)
YOLO_VEHICLE_CLASSES == {"car", "motorcycle", "bus", "truck", "train"}
YOLO_PERSON_CLASSES == {"person"}

\* The characters of the strings in use.
Chars(name) ==
    CASE name = "" -> <<>>
      [] name = "car" -> <<"c", "a", "r">>
      [] name = "Car" -> <<"C", "a", "r">>
      [] name = "truck" -> <<"t", "r", "u", "c", "k">>
      [] name = "person" -> <<"p", "e", "r", "s", "o", "n">>
      [] name = "desconocido" ->
             <<"d", "e", "s", "c", "o", "n", "o", "c", "i", "d", "o">>
      [] name = "rojo" -> <<"r", "o", "j", "o">>
      [] name = "Rojo" -> <<"R", "o", "j", "o">>
      [] name = "azul" -> <<"a", "z", "u", "l">>
      [] name = "negro" -> <<"n", "e", "g", "r", "o">>

LowerChar(c) ==
    CASE c = "C" -> "c"
      [] c = "R" -> "r"
      [] OTHER -> c

\* str.lower()
Lower(s) == [i \in 1..Len(s) |-> LowerChar(s[i])]

\* "sub in s" for strings
Contains(sub, s) ==
    \E i \in 0..(Len(s) - Len(sub)) : SubSeq(s, i + 1, i + Len(sub)) = sub

\* _match_vehicle_type that takes an entry without a vehicle type to suit
\* every region
MatchVehicleTypeAnyClass(detection, watch_entry) ==
    IF watch_entry.is_person
    THEN detection.class_name \in YOLO_PERSON_CLASSES
    ELSE IF watch_entry.vehicle_type = None
    THEN TRUE
    ELSE Contains(Lower(Chars(watch_entry.vehicle_type.val)),
                  Lower(Chars(detection.class_name)))

MatchVehicleType(detection, watch_entry) ==
    IF watch_entry.is_person
    THEN detection.class_name \in YOLO_PERSON_CLASSES
    ELSE IF watch_entry.vehicle_type = None
    THEN detection.class_name \in YOLO_VEHICLE_CLASSES
    ELSE Contains(Lower(Chars(watch_entry.vehicle_type.val)),
                  Lower(Chars(detection.class_name)))

\* build_feature_vector(roi)
ExtractFeatures(pixels) ==
    [color_hist |-> pixels.color_hist,
     average_color |-> pixels.average_color,
     edge_density |-> pixels.edge_density]

\* dominant_color_name(roi): one of the keys of BASIC_COLORS, in lower case
DominantColorName(pixels) == pixels.color_name

\* FeatureVector.from_dict
FromDict(data) ==
    [color_hist |-> data.color_hist,
     average_color |-> data.average_color,
     edge_density |-> data.edge_density]

Abs(x) == IF x < 0 THEN -x ELSE x

\* cv2.compareHist(..., HISTCMP_CORREL), in hundredths, in [-1, 1]: equal
\* histograms correlate fully, the histograms told apart here not at all
CompareHist(h1, h2) == IF h1 = h2 THEN 100 ELSE -100

\* compare_feature_vectors
CompareFeatureVectors(a, b) ==
    LET hist_score ==
            Max(0, Min(100, (CompareHist(a.color_hist, b.color_hist) + 100) \div 2))
        color_distance == Abs(a.average_color - b.average_color)
        color_score == Max(0, 100 - (color_distance * 100) \div 255)
        edge_score == Max(0, 100 - Abs(a.edge_density - b.edge_density))
    IN  60 * hist_score + 30 * color_score + 10 * edge_score

\* the score of find_matches with the penalty of a color mismatch left out
EntryScoreNoPenalty(pixels, roi_features, entry) ==
    LET base ==
            IF entry.feature_vector.some
            THEN CompareFeatureVectors(roi_features, FromDict(entry.feature_vector.val))
            ELSE 1000
        colored ==
            IF entry.color_name.some /\ entry.color_name.val # ""
            THEN IF Chars(DominantColorName(pixels)) = Lower(Chars(entry.color_name.val))
                 THEN base + 1000
                 ELSE base
            ELSE base
    IN  IF entry.has_logo
        THEN IF roi_features.edge_density > 15 THEN colored + 500 ELSE colored - 500
        ELSE colored

\* find_matches, lines 127-142: the score of an eligible entry
EntryScore(pixels, roi_features, entry) ==
    LET base ==
            IF entry.feature_vector.some
            THEN CompareFeatureVectors(roi_features, FromDict(entry.feature_vector.val))
            ELSE 1000
        colored ==
            IF entry.color_name.some /\ entry.color_name.val # ""
            THEN IF Chars(DominantColorName(pixels)) = Lower(Chars(entry.color_name.val))
                 THEN base + 1000
                 ELSE base - 500
            ELSE base
    IN  IF entry.has_logo
        THEN IF roi_features.edge_density > 15 THEN colored + 500 ELSE colored - 500
        ELSE colored

\* "for entry in watchlist" that keeps the last of the entries with the best
\* score
RECURSIVE BestMatchKeepsLast(_, _, _, _, _, _)
BestMatchKeepsLast(detection, pixels, roi_features, entries, k, best) ==
    IF k > Len(entries) THEN best
    ELSE IF ~MatchVehicleType(detection, entries[k])
    THEN BestMatchKeepsLast(detection, pixels, roi_features, entries, k + 1, best)
    ELSE LET score == EntryScore(pixels, roi_features, entries[k])
         IN  IF score >= best.score
             THEN BestMatchKeepsLast(detection, pixels, roi_features, entries, k + 1,
                                     [match |-> Some(k), score |-> score])
             ELSE BestMatchKeepsLast(detection, pixels, roi_features, entries, k + 1,
                                     best)

\* "for entry in watchlist" from the k-th entry on, with the running best
RECURSIVE BestMatch(_, _, _, _, _, _)
BestMatch(detection, pixels, roi_features, entries, k, best) ==
    IF k > Len(entries) THEN best
    ELSE IF ~MatchVehicleType(detection, entries[k])
    THEN BestMatch(detection, pixels, roi_features, entries, k + 1, best)
    ELSE LET score == EntryScore(pixels, roi_features, entries[k])
         IN  IF score > best.score
             THEN BestMatch(detection, pixels, roi_features, entries, k + 1,
                            [match |-> Some(k), score |-> score])
             ELSE BestMatch(detection, pixels, roi_features, entries, k + 1, best)

\* "for detection in detections", the results appended to found
RECURSIVE MatchDetections(_, _, _, _)
MatchDetections(detections, pixels, entries, found) ==
    IF detections = <<>> THEN found
    ELSE LET detection == Head(detections)
             roi_features == ExtractFeatures(pixels)
             best == BestMatch(detection, pixels, roi_features, entries, 1,
                               [match |-> None, score |-> 0])
         IN  MatchDetections(Tail(detections), pixels, entries,
                             Append(found,
                                    [detection |-> detection,
                                     entry |-> best.match,
                                     score |-> best.score,
                                     features |-> roi_features]))

\* find_matches(frame, watchlist), the detections being those of detect(frame)
FindMatchesOp(detections, pixels, entries) ==
    MatchDetections(detections, pixels, entries, <<>>)

\* Inputs: the stored descriptors, the entries, the watchlists of up to two
\* entries, the regions' contents and the model's boxes.
StoredDescriptors ==
    {[color_hist |-> 1, average_color |-> 51, edge_density |-> 10],
     [color_hist |-> 2, average_color |-> 255, edge_density |-> 25]}
WatchlistEntries ==
    [is_person : BOOLEAN,
     vehicle_type : {None, Some(""), Some("Car")},
     feature_vector : {None} \cup {Some(d) : d \in StoredDescriptors},
     color_name : {None, Some("Rojo"), Some("azul")},
     has_logo : BOOLEAN]
Watchlists ==
    {<<>>} \cup {<<a>> : a \in WatchlistEntries}
           \cup {<<a, b>> : a \in WatchlistEntries, b \in WatchlistEntries}
RoiPixels ==
    [color_hist : {1}, average_color : {0}, edge_density : {15, 16},
     color_name : {"rojo"}]
MatchBoxLists ==
    {<<[conf |-> 50, cls |-> "car", xyxy |-> <<0, 0, 2, 2>>]>>,
     <<[conf |-> 50, cls |-> "person", xyxy |-> <<0, 0, 1, 2>>],
       [conf |-> 50, cls |-> "truck", xyxy |-> <<1, 0, 2, 2>>]>>}

\* detector.find_matches(frame, watchlist)
FindMatches ==
    /\ detPc = "frame"
    /\ detOut' = DetectOp(detModel, detMinConf, detFrame, detBoxes)
    /\ matches' = FindMatchesOp(detOut', roiPixels, watchlist)
    /\ detPc' = "matched"
    /\ UNCHANGED <<now, camVars, detModel, detMinConf, detCtorConf, detFrame, detBoxes>>
    /\ UNCHANGED <<watchlist, roiPixels, alarmVars, runnerVars>>

\* A detector, a frame with what the model returns for it, the content of
\* its regions, and a watchlist.
MatchInit ==
    /\ now = 0
    /\ CameraIdle
    /\ detModel \in BOOLEAN
    /\ detCtorConf = Some(DefaultMinConfidence)
    /\ detMinConf = CtorMinConfidence(detCtorConf)
    /\ detFrame = [width |-> 2, height |-> 2]
    /\ detBoxes \in (IF detModel THEN MatchBoxLists ELSE {<<>>})
    /\ detOut = <<>>
    /\ detPc = "frame"
    /\ watchlist \in Watchlists
    /\ roiPixels \in RoiPixels
    /\ matches = <<>>
    /\ AlarmIdle
    /\ StoreIdle

MatchNext == FindMatches

MatchSpec == MatchInit /\ [][MatchNext]_vars

(***************************************************************************)
(* services/alarm.py and detector_runner.py.  Every alarm.trigger call     *)
(* starts one daemon thread running _handle_alarm; thread t is the thread  *)
(* of the t-th trigger.  The runner is the main thread of its process:     *)
(* when detection_loop returns, main returns and the process exits, which  *)
(* ends its daemon threads wherever they are.                              *)
(***************************************************************************)
Threads == 1..MaxTriggers

\* The threads started so far, and the next one to start.
Started == {t \in Threads : alarmPc[t] # "unborn"}
NextThread == Cardinality(Started) + 1

\* Positions of _handle_alarm with the lock held.
InSequence == {"audio", "relay", "relay_sleep", "visual", "hold"}

Logged(t, step) == phaseLog' = Append(phaseLog, <<t, step>>)

\* trigger that takes the alarm lock before it returns
TriggerUnderLock(t) ==
    /\ lock = 0
    /\ alarmPc' = [alarmPc EXCEPT ![t] = "spawned"]

\* trigger: threading.Thread(target=self._handle_alarm, daemon=True).start()
Trigger(t) ==
    alarmPc' = [alarmPc EXCEPT ![t] = "spawned"]

\* "with self._lock:" entered without waiting for the lock
AcquireUnguarded(t) ==
    /\ alarmPc[t] = "spawned"
    /\ lock' = t
    /\ alarmPc' = [alarmPc EXCEPT ![t] = "audio"]
    /\ UNCHANGED <<audioErr, phaseLog, relayOn, appState, now>>

\* "with self._lock:" entered
Acquire(t) ==
    /\ alarmPc[t] = "spawned"
    /\ lock = 0
    /\ lock' = t
    /\ alarmPc' = [alarmPc EXCEPT ![t] = "audio"]
    /\ UNCHANGED <<audioErr, phaseLog, relayOn, appState, now>>

AudioReady == alarmCfg.enable_audio /\ alarmCfg.sound_file

\* The audio phase: skipped, played to the end, or failed with the exception
\* caught and logged.
Audio(t) ==
    /\ alarmPc[t] = "audio"
    /\ alarmPc' = [alarmPc EXCEPT ![t] = "relay"]
    /\ \/ /\ ~AudioReady
          /\ UNCHANGED <<audioErr, phaseLog>>
       \/ /\ AudioReady
          /\ Logged(t, "audio")
          /\ UNCHANGED audioErr
       \/ /\ AudioReady
          /\ Logged(t, "audio")
          /\ audioErr' = audioErr \cup {t}
    /\ UNCHANGED <<lock, relayOn, appState, now>>

\* An exception leaves _handle_alarm: "with" releases the lock, the thread ends.
Raised(t) ==
    /\ alarmPc' = [alarmPc EXCEPT ![t] = "failed"]
    /\ lock' = 0

\* The relay phase up to the sleep: skipped when relay_active_seconds <= 0;
\* device.on() (which may raise) when there is a device, else the simulation.
RelayStart(t) ==
    /\ alarmPc[t] = "relay"
    /\ \/ /\ ~(alarmCfg.relay_active_seconds > 0)
          /\ alarmPc' = [alarmPc EXCEPT ![t] = "visual"]
          /\ UNCHANGED <<lock, phaseLog, relayOn>>
       \/ /\ alarmCfg.relay_active_seconds > 0
          /\ alarmPc' = [alarmPc EXCEPT ![t] = "relay_sleep"]
          /\ Logged(t, "relay")
          /\ relayOn' = alarmCfg.device
          /\ UNCHANGED lock
       \/ /\ alarmCfg.relay_active_seconds > 0
          /\ alarmCfg.device
          /\ Raised(t)
          /\ Logged(t, "relay")
          /\ UNCHANGED relayOn
    /\ UNCHANGED <<audioErr, appState, now>>

\* time.sleep(seconds) is over, the clock has moved on by that much:
\* device.off() (which may raise) when there is a device.
RelayEnd(t) ==
    /\ alarmPc[t] = "relay_sleep"
    /\ now' = now + alarmCfg.relay_active_seconds
    /\ \/ /\ alarmPc' = [alarmPc EXCEPT ![t] = "visual"]
          /\ Logged(t, "relay_off")
          /\ relayOn' = FALSE
          /\ UNCHANGED lock
       \/ /\ alarmCfg.device
          /\ Raised(t)
          /\ UNCHANGED <<phaseLog, relayOn>>
    /\ UNCHANGED <<audioErr, appState>>

\* _set_visual_alarm(active) when the clock reads t: both fields of the
\* singleton row are written.
SetVisualAlarm(active, t) ==
    appState' = [visual_alarm_active |-> active, last_alarm_at |-> Some(t)]

VisualOn(t) ==
    /\ alarmPc[t] = "visual"
    /\ SetVisualAlarm(TRUE, now)
    /\ Logged(t, "visual_on")
    /\ alarmPc' = [alarmPc EXCEPT ![t] = "hold"]
    /\ UNCHANGED <<lock, audioErr, relayOn, now>>

\* time.sleep(1) is over, the clock has moved on by one second: the flag is
\* cleared and the lock released.
VisualOff(t) ==
    /\ alarmPc[t] = "hold"
    /\ now' = now + 1
    /\ SetVisualAlarm(FALSE, now + 1)
    /\ Logged(t, "visual_off")
    /\ alarmPc' = [alarmPc EXCEPT ![t] = "done"]
    /\ lock' = 0
    /\ UNCHANGED <<audioErr, relayOn>>

\* One step of the alarm thread t; the runner is left as it is.
AlarmStep(t) ==
    /\ loopPc \notin {"exited", "crashed"}
    /\ \/ Acquire(t)
       \/ Audio(t)
       \/ RelayStart(t)
       \/ RelayEnd(t)
       \/ VisualOn(t)
       \/ VisualOff(t)
    /\ UNCHANGED <<alarmCfg, storeVars, runnerVars, camVars, detVars, matchVars>>

\* A runner step taken while some thread holds the alarm lock is recorded.
RanWhileHeld(step) ==
    ranWhileHeld' = IF lock # 0 THEN ranWhileHeld \cup {step} ELSE ranWhileHeld

\* the test of the skip taken for the first frame of every frame_skip frames
SkippedButFirst(index) ==
    alarmCfg.frame_skip > 1 /\ index % alarmCfg.frame_skip # 1

\* frame_index % frame_skip != 0 with frame_skip > 1: the frame is skipped
Skipped(index) ==
    alarmCfg.frame_skip > 1 /\ index % alarmCfg.frame_skip # 0

\* "finally: cap.release()" left out
CapReleaseForgotten == UNCHANGED released

\* finally: cap.release()
CapRelease == released' = TRUE

\* "if entry is None" that holds for no result
UnmatchedNever(result) == FALSE

\* if entry is None: continue
Unmatched(result) == result.entry = None

\* The results with an entry among those find_matches returned.
MatchedIn(found) == Cardinality({i \in 1..Len(found) : found[i].entry # None})

\* snapshot_file: the time to the microsecond, which tells the n-th result
\* handled from the others, and the id of the entry
SnapshotFile(n, entry) == <<n, entry>>

\* save_detection_snapshot(frame, bbox, path): the files after the call.  The
\* image written is frame[y1:y2, x1:x2], here the rectangle of pixels the
\* slice takes; nothing is written when the slice is empty.
SaveDetectionSnapshotOp(frame, bbox, path, written) ==
    LET roi == Roi(frame, bbox[1], bbox[2], bbox[3], bbox[4])
    IN  IF RoiSize(roi) = 0 THEN written
        ELSE written \cup
                 {[path |-> path,
                   image |-> <<SliceIndex(bbox[1], frame.width),
                               SliceIndex(bbox[2], frame.height),
                               SliceIndex(bbox[3], frame.width),
                               SliceIndex(bbox[4], frame.height)>>]}

\* events_service.record_detection: the event recorded; bbox is history, the
\* bounding box of the detection the event is about.
RecordDetection(result, path) ==
    [watchlist_entry_id |-> result.entry,
     detected_label |-> result.detection.label,
     match_score |-> result.score,
     snapshot_path |-> path,
     confidence |-> result.detection.confidence,
     bbox |-> result.detection.bbox]

\* An exception leaves the loop: "finally" releases the source, and the
\* exception goes on to leave detection_loop.
LoopRaised ==
    /\ loopPc' = "raised"
    /\ CapRelease

\* One iteration of "while True" up to the loop over the results: cap.read()
\* fails and the loop ends, or a frame is read, then skipped or matched
\* against the watchlist as it is then; find_matches may raise.
RunnerRead ==
    /\ loopPc = "loop"
    /\ \/ /\ loopPc' = "returned"
          /\ CapRelease
          /\ UNCHANGED <<frameIndex, pendingMatches, detFrame, processed, matchedSeen>>
       \/ /\ frameIndex < MaxFrames
          /\ frameIndex' = frameIndex + 1
          /\ \E scene \in scenes :
                /\ detFrame' = scene.frame
                /\ \/ /\ Skipped(frameIndex + 1)
                      /\ UNCHANGED <<loopPc, pendingMatches, released,
                                     processed, matchedSeen>>
                   \/ /\ ~Skipped(frameIndex + 1)
                      /\ processed' = processed \cup {frameIndex + 1}
                      /\ LET found ==
                                 FindMatchesOp(
                                     DetectOp(detModel, detMinConf,
                                              scene.frame, scene.boxes),
                                     scene.pixels, scene.watchlist)
                         IN  /\ MatchedIn(found) <= MaxTriggers - Cardinality(Started)
                             /\ \/ /\ pendingMatches' = found
                                   /\ matchedSeen' = matchedSeen + MatchedIn(found)
                                   /\ loopPc' = IF found = <<>> THEN "loop"
                                                ELSE "matches"
                                   /\ UNCHANGED released
                                \/ /\ LoopRaised
                                   /\ UNCHANGED <<pendingMatches, matchedSeen>>
    /\ RanWhileHeld("read")
    /\ UNCHANGED <<scenes, events, files>>
    /\ UNCHANGED <<now, alarmVars, camVars, matchVars>>
    /\ UNCHANGED <<detModel, detMinConf, detCtorConf, detBoxes, detOut, detPc>>

\* One result of "for detection, entry, score, features in matches": without
\* an entry it is passed over; with one, the snapshot is saved, the event
\* recorded and the alarm triggered, unless the snapshot or the event raises.
RunnerMatch ==
    /\ loopPc = "matches"
    /\ LET result == Head(pendingMatches)
           path == SnapshotFile(Len(events) + 1, result.entry)
           saved == SaveDetectionSnapshotOp(detFrame, result.detection.bbox,
                                            path, files)
           rest == Tail(pendingMatches)
       IN  \/ /\ Unmatched(result)
              /\ pendingMatches' = rest
              /\ loopPc' = IF rest = <<>> THEN "loop" ELSE "matches"
              /\ UNCHANGED <<files, events, alarmPc, released, ranWhileHeld>>
           \/ /\ ~Unmatched(result)
              /\ files' = saved
              /\ events' = Append(events, RecordDetection(result, path))
              /\ Trigger(NextThread)
              /\ pendingMatches' = rest
              /\ loopPc' = IF rest = <<>> THEN "loop" ELSE "matches"
              /\ RanWhileHeld("trigger")
              /\ UNCHANGED released
           \/ /\ ~Unmatched(result)
              /\ LoopRaised
              /\ UNCHANGED <<files, events, alarmPc, pendingMatches, ranWhileHeld>>
           \/ /\ ~Unmatched(result)
              /\ files' = saved
              /\ LoopRaised
              /\ UNCHANGED <<events, alarmPc, pendingMatches, ranWhileHeld>>
    /\ UNCHANGED <<frameIndex, scenes, processed, matchedSeen>>
    /\ UNCHANGED <<now, camVars, detVars, matchVars>>
    /\ UNCHANGED <<alarmCfg, lock, audioErr, phaseLog, relayOn, appState>>
    /\ UNCHANGED storeVars

\* detection_loop has returned, or an exception has left it: main ends and
\* the process exits; its daemon threads end where they are.
ProcessExit ==
    /\ loopPc \in {"returned", "raised"}
    /\ loopPc' = IF loopPc = "returned" THEN "exited" ELSE "crashed"
    /\ alarmPc' = [t \in Threads |->
                      IF alarmPc[t] \in InSequence \cup {"spawned"}
                      THEN "killed" ELSE alarmPc[t]]
    /\ UNCHANGED <<frameIndex, pendingMatches, ranWhileHeld, scenes, released,
                   events, files, processed, matchedSeen>>
    /\ UNCHANGED <<now, camVars, detVars, matchVars>>
    /\ UNCHANGED <<alarmCfg, lock, audioErr, phaseLog, relayOn, appState>>
    /\ UNCHANGED storeVars

AlarmConfigs ==
    [enable_audio : BOOLEAN, sound_file : BOOLEAN,
     relay_active_seconds : {0, 5}, device : BOOLEAN, frame_skip : {1, 2}]

\* The entry of the watchlist the scenes are matched against: not a person,
\* no vehicle type, no stored descriptor, no color, no logo; and one that
\* declares the empty vehicle type.
PlainEntry ==
    [is_person |-> FALSE, vehicle_type |-> None, feature_vector |-> None,
     color_name |-> None, has_logo |-> FALSE]
AnyClassEntry == [PlainEntry EXCEPT !.vehicle_type = Some("")]

\* A frame with the boxes the model returns for it, the content of its
\* regions, and the watchlist of the moment.
Scene(boxes, entries) ==
    [frame |-> [width |-> 2, height |-> 2],
     boxes |-> boxes,
     pixels |-> [color_hist |-> 1, average_color |-> 0, edge_density |-> 16,
                 color_name |-> "rojo"],
     watchlist |-> entries]

CarBox(xyxy) == [conf |-> 50, cls |-> "car", xyxy |-> xyxy]
PersonBox(xyxy) == [conf |-> 50, cls |-> "person", xyxy |-> xyxy]

\* The scenes of the alarm specifications: no car, one car, two cars.
AlarmScenes ==
    {Scene(<<>>, <<PlainEntry>>),
     Scene(<<CarBox(<<0, 0, 2, 2>>)>>, <<PlainEntry>>),
     Scene(<<CarBox(<<0, 0, 1, 2>>), CarBox(<<1, 0, 2, 2>>)>>, <<PlainEntry>>)}

\* The scenes of the pipeline specification: also an empty watchlist, a
\* person beside a car, and cars whose boxes reach out of the frame.
PipelineScenes ==
    AlarmScenes \cup
    {Scene(<<CarBox(<<0, 0, 2, 2>>)>>, <<>>),
     Scene(<<PersonBox(<<0, 0, 1, 2>>), CarBox(<<1, 0, 2, 2>>)>>, <<PlainEntry>>),
     Scene(<<CarBox(<<-1, 0, 1, 2>>)>>, <<PlainEntry>>),
     Scene(<<CarBox(<<-1, -1, 3, 3>>)>>, <<AnyClassEntry>>)}

\* detection_loop up to the loop: the detector and the alarm manager are
\* built, the source is open, the AppState row exists, no alarm yet.
RunnerInit ==
    /\ now = 0
    /\ CameraIdle
    /\ detCtorConf = Some(DefaultMinConfidence)
    /\ detMinConf = CtorMinConfidence(detCtorConf)
    /\ detFrame = [width |-> 2, height |-> 2]
    /\ detBoxes = <<>>
    /\ detOut = <<>>
    /\ detPc = "idle"
    /\ MatchIdle
    /\ lock = 0
    /\ alarmPc = [t \in Threads |-> "unborn"]
    /\ audioErr = {}
    /\ phaseLog = <<>>
    /\ relayOn = FALSE
    /\ appState = [visual_alarm_active |-> FALSE, last_alarm_at |-> None]
    /\ StoreIdle
    /\ loopPc = "loop"
    /\ frameIndex = 0
    /\ pendingMatches = <<>>
    /\ ranWhileHeld = {}
    /\ released = FALSE
    /\ events = <<>>
    /\ files = {}
    /\ processed = {}
    /\ matchedSeen = 0

AlarmInit ==
    /\ RunnerInit
    /\ detModel = TRUE
    /\ alarmCfg \in AlarmConfigs
    /\ scenes = AlarmScenes

AlarmThreads == \E t \in Threads : AlarmStep(t)

Runner == RunnerRead \/ RunnerMatch \/ ProcessExit

AlarmNext ==
    \/ AlarmThreads
    \/ Runner

AlarmSpec == AlarmInit /\ [][AlarmNext]_vars

\* The threads and the runner are scheduled fairly, and every wait (audio,
\* sleep) ends.
AlarmFairSpec ==
    /\ AlarmInit
    /\ [][AlarmNext]_vars
    /\ \A t \in Threads : WF_vars(AlarmStep(t))
    /\ WF_vars(Runner)

\* The runner by itself, with or without a model, on every scene; the alarm
\* threads it starts are not scheduled.
PipelineInit ==
    /\ RunnerInit
    /\ detModel \in BOOLEAN
    /\ alarmCfg \in {[enable_audio |-> TRUE, sound_file |-> FALSE,
                      relay_active_seconds |-> 5, device |-> FALSE,
                      frame_skip |-> k] : k \in {1, 2, 3}}
    /\ scenes = PipelineScenes

PipelineNext == Runner

PipelineSpec == PipelineInit /\ [][PipelineNext]_vars

(***************************************************************************)
(* models.py: AppState.get_singleton, as its callers run it, each in a     *)
(* session of its own: the runner before its loop (detector_runner.py), a  *)
(* phase of the alarm (_set_visual_alarm, in the runner's process and so   *)
(* after the runner's call) and the alarm-state route of the web process.  *)
(* The table starts empty.                                                 *)
(***************************************************************************)
StoreUnchanged ==
    UNCHANGED <<now, camVars, detVars, matchVars, runnerVars,
                alarmCfg, lock, alarmPc, audioErr, phaseLog, relayOn, appState>>

\* instance = session.query(cls).first()
Query(c) ==
    /\ getPc[c] = "start"
    /\ c = "alarm" => getPc["runner"] = "done"
    /\ IF store = <<>>
       THEN /\ getPc' = [getPc EXCEPT ![c] = "missing"]
            /\ UNCHANGED getRow
       ELSE /\ getPc' = [getPc EXCEPT ![c] = "found"]
            /\ getRow' = [getRow EXCEPT ![c] = store[1].id]
    /\ UNCHANGED store
    /\ StoreUnchanged

\* instance = cls(); session.add(instance); session.commit();
\* session.refresh(instance): the row gets the next id
Insert(c) ==
    /\ getPc[c] = "missing"
    /\ store' = Append(store, AppStateRow(Len(store) + 1))
    /\ getPc' = [getPc EXCEPT ![c] = "found"]
    /\ getRow' = [getRow EXCEPT ![c] = Len(store) + 1]
    /\ StoreUnchanged

\* The caller uses the row it was given and its session commits:
\* _set_visual_alarm(True) assigns both columns, the others read.
Use(c) ==
    /\ getPc[c] = "found"
    /\ getPc' = [getPc EXCEPT ![c] = "done"]
    /\ store' = IF c = "alarm"
                THEN [store EXCEPT ![getRow[c]] =
                         [@ EXCEPT !.visual_alarm_active = TRUE,
                                   !.last_alarm_at = Some(now)]]
                ELSE store
    /\ UNCHANGED getRow
    /\ StoreUnchanged

StoreInit ==
    /\ now = 0
    /\ CameraIdle
    /\ DetectorIdle
    /\ MatchIdle
    /\ AlarmIdle
    /\ store = <<>>
    /\ getPc = [c \in StoreCallers |-> "start"]
    /\ getRow = [c \in StoreCallers |-> 0]

StoreNext ==
    \E c \in StoreCallers : Query(c) \/ Insert(c) \/ Use(c)

StoreSpec == StoreInit /\ [][StoreNext]_vars

(***************************************************************************)
(* Claims about AlarmManager and the runner, checked under AlarmSpec       *)
(* (C4 under AlarmFairSpec).                                               *)
(***************************************************************************)
RECURSIVE StepsOf(_, _)
\* The steps thread t has logged, in order.
StepsOf(t, log) ==
    IF log = <<>> THEN <<>>
    ELSE IF Head(log)[1] = t THEN <<Head(log)[2]>> \o StepsOf(t, Tail(log))
    ELSE StepsOf(t, Tail(log))

\* The steps of a full phase sequence under the settings in force.
FullSequence ==
    (IF AudioReady THEN <<"audio">> ELSE <<>>)
        \o (IF alarmCfg.relay_active_seconds > 0 THEN <<"relay", "relay_off">> ELSE <<>>)
        \o <<"visual_on", "visual_off">>

C2_TriggerNeverBlocks ==
    /\ (loopPc = "matches" /\ ~Unmatched(Head(pendingMatches))) =>
           ENABLED (RunnerMatch /\ alarmPc'[NextThread] = "spawned")
    /\ loopPc = "loop" => ENABLED RunnerRead

\* C2 witness: thread 1 holds the lock and is still in its audio phase; with
\* the lock held the runner has returned from another trigger call and has
\* read a further frame.
C2_Witness ==
    /\ alarmPc[1] = "audio"
    /\ lock = 1
    /\ alarmPc[2] = "spawned"
    /\ ranWhileHeld = {"read", "trigger"}
    /\ loopPc = "loop"

\* The thread has set the visual flag and cleared it again.
VisualCycle(t) ==
    \E i, j \in 1..Len(phaseLog) :
        /\ i < j
        /\ phaseLog[i] = <<t, "visual_on">>
        /\ phaseLog[j] = <<t, "visual_off">>

\* C3: a failure of the audio step or of the relay step is swallowed: a
\* thread whose audio or relay step raised, once it has ended of its own
\* accord, has set the visual flag true and then false, has not been ended by
\* the exception, and no longer holds the lock.
C3_FailureSwallowed ==
    \A t \in Threads :
        /\ alarmPc[t] # "failed"
        /\ (alarmPc[t] = "done" /\ t \in audioErr) =>
               (VisualCycle(t) /\ lock # t)

\* C4: under fair scheduling and finite waits every trigger is eventually
\* followed by the completion of its whole phase sequence.
C4_TriggerCompletes ==
    \A t \in Threads : (alarmPc[t] = "spawned") ~> (alarmPc[t] = "done")

(***************************************************************************)
(* Claims about CameraController, checked under CameraSpec.                *)
(***************************************************************************)
\* What the claims call an invalid override, stated without the code's
\* validation: a source of whitespace only, frame_skip < 1, or a
\* min_confidence outside [0, 1].
Blank(s) == \A i \in 1..Len(s) : s[i] = " "

InvalidOverrides(source, frame_skip, min_confidence) ==
    \/ source.some /\ Blank(source.val)
    \/ frame_skip.some /\ frame_skip.val < 1
    \/ min_confidence.some /\ (min_confidence.val < 0 \/ min_confidence.val > 100)

NoMessage(last_error) == last_error = None \/ last_error = Some("")

\* C5: a connect or update call with any invalid override reports a
\* validation error and leaves the whole CameraState as it was before the
\* call, whatever the other overrides of the same call are.
C5_InvalidCallLeavesStateUnchanged ==
    [][\A s \in SourceArgs, f \in FrameSkipArgs, c \in MinConfidenceArgs :
          (InvalidOverrides(s, f, c) /\ (Connect(s, f, c) \/ Update(s, f, c)))
              => (camRaised' /\ camState' = camState)]_vars

\* C6: set_error with a non-empty message records the message and leaves
\* connected false whatever it was; with an empty or absent message it leaves
\* no error message recorded and connected exactly as it was.
C6_SetError ==
    \A m \in MessageArgs :
        LET after == SetErrorOp(camState, m).st
        IN  IF m.some /\ m.val # ""
            THEN /\ after.last_error = m
                 /\ after.connected = FALSE
            ELSE /\ NoMessage(after.last_error)
                 /\ after.connected = camState.connected

\* C6 witness: set_error("boom") was called on a connected camera, which is
\* now disconnected with the message recorded.
C6_Witness ==
    /\ camLastOp = "set_error"
    /\ camPrev.connected
    /\ ~camState.connected
    /\ camState.last_error = Some("boom")

\* C7: a connect call whose overrides are all valid or absent applies every
\* supplied override (the source with its surrounding whitespace removed),
\* sets connected, clears last_error and stamps last_connected_at with the
\* current time, from any state; a connect call that fails validation neither
\* marks the camera connected nor clears the error.
C7_Connect ==
    \A s \in SourceArgs, f \in FrameSkipArgs, c \in MinConfidenceArgs :
        LET r == ConnectOp(camState, s, f, c, now)
        IN  IF ~InvalidOverrides(s, f, c)
            THEN /\ ~r.raised
                 /\ r.st.connected
                 /\ r.st.last_error = None
                 /\ r.st.last_connected_at = Some(now)
                 /\ r.st.source = IF s.some THEN Strip(s.val) ELSE camState.source
                 /\ r.st.frame_skip =
                        IF f.some THEN f.val ELSE camState.frame_skip
                 /\ r.st.min_confidence =
                        IF c.some THEN c.val ELSE camState.min_confidence
            ELSE /\ r.raised
                 /\ r.st.connected = camState.connected
                 /\ r.st.last_error = camState.last_error

\* C7 witness: a connect with three valid overrides succeeded on a camera
\* that was disconnected with an error recorded.
C7_Witness ==
    /\ camLastOp = "connect"
    /\ ~camRaised
    /\ ~camPrev.connected
    /\ camPrev.last_error = Some("boom")
    /\ camState.connected
    /\ camState.last_error = None
    /\ camState.source = <<"b">>
    /\ camState.frame_skip = 3
    /\ camState.min_confidence = 100
    /\ camState.last_connected_at = Some(now)
    /\ now > 0

SameButStamp(st1, st2) ==
    [st1 EXCEPT !.last_connected_at = None] = [st2 EXCEPT !.last_connected_at = None]

\* C8 as stated: each operation is idempotent, the same call made a second
\* time (when the clock reads t2 >= now) leaves the CameraState the first
\* call left.
C8_Idempotent ==
    [][/\ \A s \in SourceArgs, f \in FrameSkipArgs, c \in MinConfidenceArgs :
             Connect(s, f, c) =>
                 \A t2 \in now..MaxTime :
                     ConnectOp(camState', s, f, c, t2).st = camState'
       /\ Disconnect => DisconnectOp(camState').st = camState'
       /\ \A s \in SourceArgs, f \in FrameSkipArgs, c \in MinConfidenceArgs :
             Update(s, f, c) => UpdateOp(camState', s, f, c).st = camState'
       /\ \A m \in MessageArgs :
             SetError(m) => SetErrorOp(camState', m).st = camState']_vars

\* C8 amended: disconnect, update and set_error are idempotent; a second
\* identical connect (made when the clock reads t2 >= now) raises as the
\* first did and leaves every field as the first left it except
\* last_connected_at, which a successful connect stamps again with t2.
C8_IdempotentButStamp ==
    /\ \A s \in SourceArgs, f \in FrameSkipArgs, c \in MinConfidenceArgs :
          /\ LET once == ConnectOp(camState, s, f, c, now)
             IN  \A t2 \in now..MaxTime :
                     LET twice == ConnectOp(once.st, s, f, c, t2)
                     IN  /\ twice.raised = once.raised
                         /\ SameButStamp(twice.st, once.st)
                         /\ twice.st.last_connected_at =
                                IF once.raised THEN once.st.last_connected_at
                                ELSE Some(t2)
          /\ LET once == UpdateOp(camState, s, f, c)
             IN  UpdateOp(once.st, s, f, c) = once
    /\ LET once == DisconnectOp(camState)
       IN  DisconnectOp(once.st) = once
    /\ \A m \in MessageArgs :
          LET once == SetErrorOp(camState, m)
          IN  SetErrorOp(once.st, m) = once

\* C8 witness: a connect succeeded and the clock has moved on since, so that
\* the same connect made now stamps a later time.
C8_Witness ==
    /\ camLastOp = "connect"
    /\ ~camRaised
    /\ camState.connected
    /\ camState.last_connected_at = Some(0)
    /\ now = 1

\* C22: update never changes connected, last_connected_at or last_error, and
\* an update with no override changes nothing at all; disconnect sets
\* connected to false and changes no other field; set_error never changes
\* source, frame_skip, min_confidence or last_connected_at.  This holds for
\* calls that raise as well.
C22_FieldsLeftAlone ==
    /\ \A s \in SourceArgs, f \in FrameSkipArgs, c \in MinConfidenceArgs :
          LET after == UpdateOp(camState, s, f, c).st
          IN  /\ after.connected = camState.connected
              /\ after.last_connected_at = camState.last_connected_at
              /\ after.last_error = camState.last_error
    /\ UpdateOp(camState, None, None, None) = [st |-> camState, raised |-> FALSE]
    /\ LET after == DisconnectOp(camState).st
       IN  /\ after.connected = FALSE
           /\ [after EXCEPT !.connected = camState.connected] = camState
    /\ \A m \in MessageArgs :
          LET after == SetErrorOp(camState, m).st
          IN  /\ after.source = camState.source
              /\ after.frame_skip = camState.frame_skip
              /\ after.min_confidence = camState.min_confidence
              /\ after.last_connected_at = camState.last_connected_at

\* C22 witness: an update changed the source of a camera that was connected,
\* and the camera is still connected with its connection time.
C22_Witness ==
    /\ camLastOp = "update"
    /\ ~camRaised
    /\ camPrev.connected
    /\ camState.connected
    /\ camState.last_connected_at # None
    /\ camState.source = <<"a">>
    /\ camState.frame_skip = 3

\* C23: from the configured initial state, after any sequence of connect,
\* disconnect, update and set_error calls, accepted or rejected, the source
\* is not blank, frame_skip >= 1 and 0 <= min_confidence <= 1.
C23_ValidState ==
    /\ ~Blank(camState.source)
    /\ camState.frame_skip >= 1
    /\ 0 <= camState.min_confidence
    /\ camState.min_confidence <= 100

\* C23 witness: a call was rejected for its min_confidence after its source
\* and frame_skip had been assigned.
C23_Witness ==
    /\ camRaised
    /\ camLastOp \in {"connect", "update"}
    /\ camState.source = <<"b">>
    /\ camState.frame_skip = 3
    /\ camState.min_confidence = DefaultMinConfidence

(***************************************************************************)
(* A claim about get_state, checked under CameraReadSpec.                  *)
(***************************************************************************)
\* C24: every CameraState get_state returns is a state _state had between
\* two completed calls of the controller, whatever connect, disconnect,
\* update and set_error calls ran while it was read: a reader never sees a
\* call half made.
C24_ReaderSeesCompletedState ==
    readPc = "returned" => SnapshotOf(readCopy) \in readSeen

(***************************************************************************)
(* Claims about VehicleDetector.detect, checked under DetectSpec.          *)
(***************************************************************************)
\* A bounding box inside the frame, with positive area.
InFrame(bbox, frame) ==
    /\ 0 <= bbox[1] /\ bbox[1] < bbox[3] /\ bbox[3] <= frame.width
    /\ 0 <= bbox[2] /\ bbox[2] < bbox[4] /\ bbox[4] <= frame.height

\* C9: with a model loaded and in degraded mode, the bbox of every region
\* detect returns lies within the frame (0 <= x1 < x2 <= width,
\* 0 <= y1 < y2 <= height) and so has positive area.
C9_BboxWithinFrame ==
    detPc = "done" => \A i \in 1..Len(detOut) : InFrame(detOut[i].bbox, detFrame)

\* The region of degraded mode for a frame, with its label.
CenterRegion(out, frame, label) ==
    /\ Len(out) = 1
    /\ out[1].bbox = <<frame.width \div 4, frame.height \div 4,
                       (3 * frame.width) \div 4, (3 * frame.height) \div 4>>
    /\ out[1].confidence = 30
    /\ out[1].label = label

ContainsIgnoringCase(t, c) == Contains(Lower(Chars(t)), Lower(Chars(c)))

\* The entry reported for the i-th region, when there is one.
Reported(i) == watchlist[matches[i].entry.val]

\* C11 as stated: every entry reported for a region is eligible for it: an
\* is_person entry is reported only for a person region, an entry with a
\* declared vehicle type only for a region whose class tag contains the
\* type, an entry with neither only for a region of a vehicle class.
C11_Eligible ==
    detPc = "matched" =>
        \A i \in 1..Len(matches) :
            matches[i].entry.some =>
                LET entry == Reported(i)
                    class == matches[i].detection.class_name
                IN  /\ entry.is_person => class = "person"
                    /\ entry.vehicle_type.some =>
                           ContainsIgnoringCase(entry.vehicle_type.val, class)
                    /\ (~entry.is_person /\ ~entry.vehicle_type.some) =>
                           class \in {"car", "motorcycle", "bus", "truck", "train"}

\* C11 amended: an is_person entry is reported only for a person region,
\* whatever vehicle type it declares; an entry that is not is_person and
\* declares a vehicle type only for a region whose class tag contains the
\* type; an entry with neither only for a region of a vehicle class, so
\* never for a person region or for the region of degraded mode.
C11_EligiblePersonFirst ==
    detPc = "matched" =>
        \A i \in 1..Len(matches) :
            matches[i].entry.some =>
                LET entry == Reported(i)
                    class == matches[i].detection.class_name
                IN  /\ entry.is_person => class = "person"
                    /\ (~entry.is_person /\ entry.vehicle_type.some) =>
                           ContainsIgnoringCase(entry.vehicle_type.val, class)
                    /\ (~entry.is_person /\ ~entry.vehicle_type.some) =>
                           /\ class \in {"car", "motorcycle", "bus", "truck", "train"}
                           /\ class \notin {"person", "desconocido"}

\* C11 witness: a person region and a truck region; the person region is
\* reported with an is_person entry, the truck region with an entry that
\* declares neither a person nor a vehicle type.
C11_Witness ==
    /\ detPc = "matched"
    /\ Len(matches) = 2
    /\ matches[1].detection.class_name = "person"
    /\ matches[1].entry.some
    /\ watchlist[matches[1].entry.val].is_person
    /\ matches[2].detection.class_name = "truck"
    /\ matches[2].entry.some
    /\ ~watchlist[matches[2].entry.val].is_person
    /\ watchlist[matches[2].entry.val].vehicle_type = None

\* The entries of the watchlist eligible for a region, and their best score.
EligibleFor(detection) ==
    {k \in 1..Len(watchlist) : MatchVehicleType(detection, watchlist[k])}

ScoreFor(k) == EntryScore(roiPixels, ExtractFeatures(roiPixels), watchlist[k])

\* C12: find_matches returns one result per detected region, in detection
\* order; the entry of a result is the earliest of the eligible entries with
\* the greatest score, and the score is that entry's, provided the greatest
\* score is above 0; otherwise the result has no entry and the score 0.
C12_BestMatch ==
    detPc = "matched" =>
        /\ Len(matches) = Len(detOut)
        /\ \A i \in 1..Len(matches) :
              LET eligible == EligibleFor(detOut[i])
                  positive == {k \in eligible : ScoreFor(k) > 0}
              IN  /\ matches[i].detection = detOut[i]
                  /\ IF positive = {}
                     THEN matches[i].entry = None /\ matches[i].score = 0
                     ELSE LET top == {k \in eligible :
                                         \A j \in eligible : ScoreFor(j) <= ScoreFor(k)}
                              first == CHOOSE k \in top : \A j \in top : k <= j
                          IN  /\ matches[i].entry = Some(first)
                              /\ matches[i].score = ScoreFor(first)

\* C12 witness: two eligible entries with the same positive score for a car
\* region, the first of them reported; and a second region in the results.
C12_Witness ==
    /\ detPc = "matched"
    /\ Len(watchlist) = 2
    /\ Len(matches) = 2
    /\ EligibleFor(detOut[2]) = {1, 2}
    /\ ScoreFor(1) = ScoreFor(2)
    /\ ScoreFor(1) > 0
    /\ matches[2].entry = Some(1)
    /\ matches[1].entry = None

\* The score the claim gives an entry without a stored descriptor, for the
\* region at hand.
BaselineScore(entry) ==
    1000
    + (IF entry.color_name.some
       THEN IF Lower(Chars(entry.color_name.val)) = Lower(Chars(roiPixels.color_name))
            THEN 1000 ELSE -500
       ELSE 0)
    + (IF entry.has_logo
       THEN IF roiPixels.edge_density > 15 THEN 500 ELSE -500
       ELSE 0)

\* C13: the score of an entry without a stored descriptor is 0.1, plus 0.1
\* for a declared color that is the region's dominant color or minus 0.05
\* for one that is not, plus 0.05 for a declared logo with an edge density
\* above 0.15 or minus 0.05 with one of at most 0.15; such an entry with a
\* color mismatch and a logo miss scores 0 and is not reported for the region.
C13_Baseline ==
    \A k \in 1..Len(watchlist) :
        ~watchlist[k].feature_vector.some =>
            /\ ScoreFor(k) = BaselineScore(watchlist[k])
            /\ ( /\ watchlist[k].color_name = Some("azul")
                 /\ watchlist[k].has_logo
                 /\ roiPixels.edge_density <= 15 ) =>
                   /\ ScoreFor(k) = 0
                   /\ \A i \in 1..Len(matches) : matches[i].entry # Some(k)

\* C13 witness: find_matches has returned for a car region with an edge
\* density of 0.15 and a watchlist of one entry that is eligible, has no
\* stored descriptor, declares another color and a logo; no entry is reported.
C13_Witness ==
    /\ detPc = "matched"
    /\ Len(matches) = 1
    /\ Len(watchlist) = 1
    /\ EligibleFor(detOut[1]) = {1}
    /\ ~watchlist[1].feature_vector.some
    /\ watchlist[1].color_name = Some("azul")
    /\ watchlist[1].has_logo
    /\ roiPixels.edge_density = 15
    /\ matches[1].entry = None
    /\ matches[1].score = 0

ClipToFrame(bbox, frame) ==
    <<Max(0, bbox[1]), Max(0, bbox[2]),
      Min(frame.width, bbox[3]), Min(frame.height, bbox[4])>>

\* C15: for every event recorded there is a snapshot file under the path
\* the event names, and its image is the frame cropped to the bounding box
\* of the detection, whatever box the detector returned.
C15_SnapshotPersisted ==
    \A i \in 1..Len(events) :
        \E f \in files :
            /\ f.path = events[i].snapshot_path
            /\ f.image = ClipToFrame(events[i].bbox, detFrame)

\* C16: find_matches has been run on exactly the frames whose index n, from
\* 1 on, has n mod frame_skip = 0.
C16_FrameSkip ==
    processed = {n \in 1..frameIndex : n % alarmCfg.frame_skip = 0}

\* C16 witness: with frame_skip = 2 two frames have been read, the first
\* skipped and the second matched.
C16_Witness ==
    /\ alarmCfg.frame_skip = 2
    /\ frameIndex = 2
    /\ processed = {2}
    /\ Len(events) = 1

\* The loop has ended.
LoopOver == loopPc \in {"returned", "raised", "exited", "crashed"}

\* C17: a read that yields no frame ends the loop without raising; once the
\* loop has ended, by a failed read or by an exception, no frame is read or
\* matched and no snapshot, event or trigger follows; the frame source is
\* released when the loop has ended, however it ended, and not before.
C17_LoopTerminates ==
    /\ [](LoopOver <=> released)
    /\ [][(RunnerRead /\ frameIndex' = frameIndex) =>
              (loopPc' = "returned" /\ released')]_vars
    /\ [][LoopOver =>
              /\ LoopOver'
              /\ UNCHANGED <<frameIndex, processed, matchedSeen, pendingMatches,
                             events, files>>
              /\ Started' = Started]_vars

\* C17 witness: the stream ended after one frame, which gave one event; the
\* loop has returned and the source is released.
C17_Witness ==
    /\ loopPc = "returned"
    /\ released
    /\ frameIndex = 1
    /\ Len(events) = 1
    /\ pendingMatches = <<>>

(***************************************************************************)
(* Further claims about AlarmManager, checked under AlarmSpec.             *)
(***************************************************************************)
IsPrefix(a, b) == Len(a) <= Len(b) /\ SubSeq(b, 1, Len(a)) = a

\* C18: the steps of one phase sequence come in the order audio, relay,
\* visual-on, visual-off, the audio step left out when audio is disabled or
\* no sound file can be reached and the relay step when the relay time is
\* not positive; a thread that has ended of its own accord has run the
\* whole sequence, visual-on and visual-off included; the relay is asserted
\* only by the thread that holds the lock and is in its relay step, and is
\* deasserted when a sequence comes to set the visual flag.
C18_PhaseOrder ==
    /\ \A t \in Threads : IsPrefix(StepsOf(t, phaseLog), FullSequence)
    /\ \A t \in Threads :
          alarmPc[t] \in {"done", "failed"} => StepsOf(t, phaseLog) = FullSequence
    /\ relayOn => (lock # 0 /\ alarmPc[lock] = "relay_sleep")
    /\ \A t \in Threads : alarmPc[t] \in {"visual", "hold"} => ~relayOn

\* C19: the visual flag of the AppState row is set only while a thread
\* holds the alarm lock and is between its visual-on and its visual-off
\* step; with no phase sequence in progress the flag is clear.
C19_VisualActiveOnlyInHold ==
    /\ appState.visual_alarm_active =>
           \E t \in Threads : lock = t /\ alarmPc[t] = "hold"
    /\ (\A t \in Threads : alarmPc[t] \notin InSequence) =>
           ~appState.visual_alarm_active

\* C20: the visual-off step clears the visual flag and leaves last_alarm_at
\* as the visual-on step wrote it.
C20_VisualOffKeepsLastAlarmAt ==
    [][\A t \in Threads :
           VisualOff(t) =>
               /\ ~appState'.visual_alarm_active
               /\ appState'.last_alarm_at = appState.last_alarm_at]_vars

(***************************************************************************)
(* A further claim about VehicleDetector.detect, checked under DetectSpec. *)
(***************************************************************************)
\* The min_confidence the detector was constructed with: the argument, or
\* the configured default when there is none.
ConstructedWith ==
    IF detCtorConf.some THEN detCtorConf.val ELSE DefaultMinConfidence

\* The box is to be kept: its confidence is at least the min_confidence the
\* detector was constructed with, and clamped to the frame it has an area.
Kept(box) ==
    /\ box.conf >= ConstructedWith
    /\ Max(0, box.xyxy[1]) < Min(detFrame.width, box.xyxy[3])
    /\ Max(0, box.xyxy[2]) < Min(detFrame.height, box.xyxy[4])

\* C21: with a model loaded, the regions detect returns are those of the
\* model's boxes whose confidence is not below the min_confidence the
\* detector was constructed with, 0 included, and whose box clamped to the
\* frame is not empty, one region for each such box, in order.
C21_KeptBoxes ==
    (detPc = "done" /\ detModel) =>
        LET kept == SelectSeq(detBoxes, Kept)
        IN  /\ Len(detOut) = Len(kept)
            /\ \A i \in 1..Len(kept) :
                  /\ detOut[i].bbox = kept[i].xyxy
                  /\ detOut[i].confidence = kept[i].conf

(***************************************************************************)
(* A claim about AppState.get_singleton, checked under StoreSpec.          *)
(***************************************************************************)
\* C25: once the concurrent get_singleton calls made on the empty table
\* have all completed, the table holds exactly one AppState row, and that
\* row is the one every caller read or updated.
C25_Singleton ==
    (\A c \in StoreCallers : getPc[c] = "done") =>
        /\ Len(store) = 1
        /\ \A c \in StoreCallers : getRow[c] = store[1].id

====
